---- MODULE Spec2Model ----
(***************************************************************************)
(* Model of ppl_gnn_stocks: the sliding-window correlation script          *)
(* (init_temporal_correlations.py) and the helpers of utils.py.            *)
(*                                                                         *)
(* Arrays are functions over 0..n-1, as numpy indexes them.  Real numbers  *)
(* are exact: a correlation value is <<s, p, q, e>>, standing for          *)
(* s * sqrt(p/q) * 10^e with p/q in lowest terms, and <<0, 0, 0, 0>> is    *)
(* NaN (0/0); a money amount is a fraction <<num, den>> in lowest terms.   *)
(***************************************************************************)
EXTENDS Integers, Sequences, FiniteSets, TLC

VARIABLES
    \* init_temporal_correlations.py
    gt_data, corr_size, corr, t, c1, c2, written, pickled, pc,
    \* utils.py: best_return / avg_return
    pct_returns, daily_investment, skip_n_steps, ret,
    \* utils.py: get_dataset
    price_data, train_size, test_size, n, folds,
    \* utils.py: profit
    test, truth, i, total, ppc,
    \* utils.py: save_corr_timestep / load_corr_timestep
    dirs, files, loaded

corrVars == <<gt_data, corr_size, corr, t, c1, c2, written, pickled, pc>>
retVars == <<pct_returns, daily_investment, skip_n_steps, ret>>
dsVars == <<price_data, train_size, test_size, n, folds>>
profitVars == <<test, truth, i, total, ppc>>
storeVars == <<dirs, files, loaded>>
vars == <<corrVars, retVars, dsVars, profitVars, storeVars>>

----------------------------------------------------------------------------
\* Bounds of the model.
MaxCompanies == 4
MaxTimesteps == 4
MaxCells == 12

\* Return signals of the ReturnSeries (binary up/down indicator).
Movements == {0, 1}

----------------------------------------------------------------------------
\* Array helpers (numpy semantics, 0-based).

Size(a) == Cardinality(DOMAIN a)

Min2(a, b) == IF a < b THEN a ELSE b

Max2(a, b) == IF a > b THEN a ELSE b

Abs(a) == IF a < 0 THEN -a ELSE a

Sign(a) == IF a > 0 THEN 1 ELSE IF a < 0 THEN -1 ELSE 0

RECURSIVE Gcd(_, _)
Gcd(a, b) == IF b = 0 THEN a ELSE Gcd(b, a % b)

\* A bound of a slice, as Python normalises it: negative counts from the end,
\* then clipped to 0..len.
SliceIndex(k, len) == IF k < 0 THEN Max2(k + len, 0) ELSE Min2(k, len)

\* a[lo:hi]
Slice(a, lo, hi) ==
    LET l == SliceIndex(lo, Size(a))
        h == SliceIndex(hi, Size(a))
    IN  [k \in 0..(h - l - 1) |-> a[l + k]]

\* a[lo:]
SliceFrom(a, lo) == Slice(a, lo, Size(a))

\* a[k] with Python's negative indexing
Index(a, k) == IF k < 0 THEN a[k + Size(a)] ELSE a[k]

\* m.T of a matrix with rows rows and cols columns
Transpose(m, rows, cols) == [c \in 0..(cols - 1) |-> [r \in 0..(rows - 1) |-> m[r][c]]]

\* m[:, c]
Column(m, c) == [r \in DOMAIN m |-> m[r][c]]

RECURSIVE SumUpTo(_, _)
SumUpTo(a, k) == IF k = 0 THEN 0 ELSE SumUpTo(a, k - 1) + a[k - 1]

\* np.sum of a vector of integers
Sum(a) == SumUpTo(a, Size(a))

\* np.dot of two vectors
Dot(a, b) == Sum([k \in DOMAIN a |-> a[k] * b[k]])

----------------------------------------------------------------------------
\* init_temporal_correlations.py

NaN == <<0, 0, 0, 0>>

Zero == <<0, 0, 1, 0>>

\* 1e-10
Sentinel == <<1, 1, 1, -10>>

\* s * sqrt(num/den), normalised
Root(s, num, den) ==
    IF num = 0 THEN Zero
    ELSE LET g == Gcd(num, den) IN <<s, num \div g, den \div g, 0>>

IsConstant(x) == \A k \in DOMAIN x : x[k] = x[0]

\* scipy.stats.pearsonr(x, y)[0]: NaN on a constant input, else the dot product
\* of the mean-centred, normalised vectors (centred values scaled by len).
pearsonr(x, y) ==
    IF IsConstant(x) \/ IsConstant(y) THEN NaN
    ELSE LET len == Size(x)
             xm == [k \in DOMAIN x |-> len * x[k] - Sum(x)]
             ym == [k \in DOMAIN y |-> len * y[k] - Sum(y)]
             d == Dot(xm, ym)
         IN  Root(Sign(d), d * d, Dot(xm, xm) * Dot(ym, ym))

isnan(v) == v = NaN

num_companies == Size(gt_data)

num_timesteps == Size(gt_data[0])

\* correlation_matrix_shape[0]
num_windows == num_timesteps - corr_size

\* range(0, num_companies)
C1Range(nc) == 0..(nc - 1)

\* Variant: range(1, num_companies)
C2RangeToLast(nc) == 1..(nc - 1)
\* range(1, num_companies - 1)
C2Range(nc) == 1..(nc - 2)

\* gt_data.T[t:t+corr_size][:, c]
Movements_of(c, tt) ==
    Column(Slice(Transpose(gt_data, num_companies, num_timesteps), tt, tt + corr_size), c)

\* Variant: the coefficient stored as computed
SubstituteKeepNaN(v) == v
\* the value the body stores: NaN replaced by the sentinel
Substitute(v) == IF isnan(v) THEN Sentinel ELSE v

Cells == (0..(num_windows - 1)) \X (0..(num_companies - 1)) \X (0..(num_companies - 1))

Matrices(rows, cols, vals) == [0..(rows - 1) -> [0..(cols - 1) -> vals]]

Shapes ==
    {s \in (1..MaxCompanies) \X (3..MaxTimesteps) : s[1] * s[2] <= MaxCells}

CorrIdle ==
    /\ gt_data = <<>> /\ corr_size = 0 /\ corr = <<>>
    /\ t = 0 /\ c1 = 0 /\ c2 = 0 /\ written = {} /\ pickled = <<>> /\ pc = "idle"

\* State at line 30: data loaded, tensor zero-filled, loops about to start.
CorrInit ==
    /\ \E s \in Shapes :
         /\ gt_data \in Matrices(s[1], s[2], Movements)
         /\ corr_size \in 2..(s[2] - 1)
    /\ corr = [cell \in Cells |-> Zero]
    /\ t = 0 /\ c1 = 0 /\ c2 = 1
    /\ written = {}
    /\ pickled = <<>>
    /\ pc = "loop"

\* One execution of the loop body (lines 34-39) and the advance of the three
\* loop counters to the next iteration.
CorrBody ==
    /\ pc = "loop"
    /\ t \in 0..(num_windows - 1)
    /\ c1 \in C1Range(num_companies)
    /\ c2 \in C2Range(num_companies)
    /\ LET c1_movements == Movements_of(c1, t)
           c2_movements == Movements_of(c2, t)
           c1_c2_corr == Substitute(pearsonr(c1_movements, c2_movements))
       IN  /\ corr' = [corr EXCEPT ![<<t, c1, c2>>] = c1_c2_corr]
           /\ written' = written \cup {<<t, c1, c2>>}
    /\ IF c2 + 1 \in C2Range(num_companies)
       THEN /\ c2' = c2 + 1
            /\ UNCHANGED <<t, c1>>
       ELSE IF c1 + 1 \in C1Range(num_companies)
       THEN /\ c2' = 1
            /\ c1' = c1 + 1
            /\ UNCHANGED t
       ELSE /\ c2' = 1
            /\ c1' = 0
            /\ t' = t + 1
    /\ UNCHANGED <<gt_data, corr_size, pickled, pc>>
    /\ UNCHANGED <<retVars, dsVars, profitVars, storeVars>>

\* The loops are exhausted (or have no iteration at all): the tensor is
\* pickled (lines 42-44).
CorrSave ==
    /\ pc = "loop"
    /\ \/ t >= num_windows
       \/ C2Range(num_companies) = {}
    /\ pickled' = corr
    /\ pc' = "done"
    /\ UNCHANGED <<gt_data, corr_size, corr, t, c1, c2, written>>
    /\ UNCHANGED <<retVars, dsVars, profitVars, storeVars>>

----------------------------------------------------------------------------
\* utils.py: best_return, avg_return

MaxRetCells == 4
MaxSkip == 5

\* Percent returns and investments tried.
Returns == {-1, 1, 2, 3}

Investments == {-1, 0, 1, 100}

\* The fraction a/b (b # 0) with a positive denominator, in lowest terms.
Frac(a, b) ==
    LET g == Gcd(Abs(a), Abs(b))
    IN  IF b < 0 THEN <<(-a) \div g, (-b) \div g>> ELSE <<a \div g, b \div g>>

FracAdd(x, y) == Frac(x[1] * y[2] + y[1] * x[2], x[2] * y[2])

FracScale(k, x) == Frac(k * x[1], x[2])

\* x / y, y # 0
FracDiv(x, y) == Frac(x[1] * y[2], x[2] * y[1])

FracLeq(x, y) == x[1] * y[2] <= y[1] * x[2]

RECURSIVE MaxUpTo(_, _)
MaxUpTo(a, k) == IF k = 1 THEN a[0] ELSE Max2(MaxUpTo(a, k - 1), a[k - 1])

RECURSIVE MinUpTo(_, _)
MinUpTo(a, k) == IF k = 1 THEN a[0] ELSE Min2(MinUpTo(a, k - 1), a[k - 1])

\* Variant: np.min(m, axis=1)
MinAxis1(m) == [r \in DOMAIN m |-> Frac(MinUpTo(m[r], Size(m[r])), 1)]
\* np.max(m, axis=1): the maximum of every row of m
MaxAxis1(m) == [r \in DOMAIN m |-> Frac(MaxUpTo(m[r], Size(m[r])), 1)]

\* np.average(m, axis=1): the mean of every row of m
AverageAxis1(m) == [r \in DOMAIN m |-> Frac(Sum(m[r]), Size(m[r]))]

\* np.multiply(k, v), k a scalar
Multiply(k, v) == [j \in DOMAIN v |-> FracScale(k, v[j])]

RECURSIVE FracSumUpTo(_, _)
FracSumUpTo(a, k) == IF k = 0 THEN <<0, 1>> ELSE FracAdd(FracSumUpTo(a, k - 1), a[k - 1])

\* np.sum of a vector of fractions
FracSum(a) == FracSumUpTo(a, Size(a))

\* Variant: no step skipped
SkipNone(v, k) == v
\* The skip applied to the per-timestep vector: v[skip_n_steps:]
SkipSteps(v, k) == SliceFrom(v, k)

best_return(returns, rows, cols, investment, skip) ==
    FracSum(Multiply(investment, SkipSteps(MaxAxis1(Transpose(returns, rows, cols)), skip)))

avg_return(returns, rows, cols, investment, skip) ==
    FracSum(Multiply(investment, SkipSteps(AverageAxis1(Transpose(returns, rows, cols)), skip)))

RetShapes ==
    {s \in (1..MaxCompanies) \X (0..MaxTimesteps) : s[1] * s[2] <= MaxRetCells}

RetRows == Size(pct_returns)

RetCols == Size(pct_returns[0])

NoReturn == [best_done |-> FALSE, best |-> <<0, 1>>, avg_done |-> FALSE, avg |-> <<0, 1>>]

RetIdle ==
    /\ pct_returns = <<>> /\ daily_investment = 0 /\ skip_n_steps = 0 /\ ret = NoReturn

RetInit(skips) ==
    /\ \E s \in RetShapes : pct_returns \in Matrices(s[1], s[2], Returns)
    /\ daily_investment \in Investments
    /\ skip_n_steps \in skips
    /\ ret = NoReturn

CallBestReturn ==
    /\ pct_returns # <<>>
    /\ ~ret.best_done
    /\ ret' = [ret EXCEPT !.best_done = TRUE,
                          !.best = best_return(pct_returns, RetRows, RetCols,
                                               daily_investment, skip_n_steps)]
    /\ UNCHANGED <<pct_returns, daily_investment, skip_n_steps>>
    /\ UNCHANGED <<corrVars, dsVars, profitVars, storeVars>>

CallAvgReturn ==
    /\ pct_returns # <<>>
    /\ ~ret.avg_done
    /\ ret' = [ret EXCEPT !.avg_done = TRUE,
                          !.avg = avg_return(pct_returns, RetRows, RetCols,
                                             daily_investment, skip_n_steps)]
    /\ UNCHANGED <<pct_returns, daily_investment, skip_n_steps>>
    /\ UNCHANGED <<corrVars, dsVars, profitVars, storeVars>>

----------------------------------------------------------------------------
\* utils.py: get_dataset

MaxSeries == 7
MaxTrain == 3
MaxTest == 3
MaxFold == 4

\* A price series whose cells are pairwise distinct, so that a slice of it
\* determines the columns it was cut from.
PriceSeries(rows, cols) == [r \in 0..(rows - 1) |-> [c \in 0..(cols - 1) |-> 1 + r * cols + c]]

\* Variant: m[:, :hi]
ColumnsFromStart(m, lo, hi) == [r \in DOMAIN m |-> Slice(m[r], 0, hi)]
\* m[:, lo:hi]
Columns(m, lo, hi) == [r \in DOMAIN m |-> Slice(m[r], lo, hi)]

\* The two kinds of value get_dataset returns: the pair (train, test), or an
\* integer.
Split(tr, te) == [split |-> TRUE, train |-> tr, test |-> te, value |-> 0]

Remaining(v) == [split |-> FALSE, train |-> <<>>, test |-> <<>>, value |-> v]

\* Variant: folds advancing by one column
start_point_by_one(k, te) == k
\* start_point = n*test_size
start_point(k, te) == k * te

get_dataset(pd, k, tr, te) ==
    LET start == start_point(k, te)
        split_point == start + tr
        final_point == split_point + te
    IN  IF final_point > Size(pd[0])
        THEN Remaining(Size(pd[0]) - start)
        ELSE Split(Columns(pd, start, split_point), Columns(pd, split_point, final_point))

DsIdle ==
    /\ price_data = <<>> /\ train_size = 0 /\ test_size = 0 /\ n = 0 /\ folds = <<>>

DsInit ==
    /\ \E rows \in 1..2, cols \in 0..MaxSeries : price_data = PriceSeries(rows, cols)
    /\ train_size \in 0..MaxTrain
    /\ test_size \in 0..MaxTest
    /\ n = 0
    /\ folds = <<>>

\* The caller asks for fold n, then moves on to fold n + 1.
GetDataset ==
    /\ price_data # <<>>
    /\ n <= MaxFold
    /\ folds' = [k \in 0..n |->
                   IF k = n THEN get_dataset(price_data, n, train_size, test_size)
                   ELSE folds[k]]
    /\ n' = n + 1
    /\ UNCHANGED <<price_data, train_size, test_size>>
    /\ UNCHANGED <<corrVars, retVars, profitVars, storeVars>>

----------------------------------------------------------------------------
\* utils.py: profit

MaxProfitCells == 4

\* Predicted scores and true prices tried.
Scores == {0, 1}

Prices == {1, 2, 4}

RECURSIVE ArgMaxUpTo(_, _)
ArgMaxUpTo(a, k) ==
    IF k = 1 THEN 0
    ELSE LET b == ArgMaxUpTo(a, k - 1) IN IF a[k - 1] > a[b] THEN k - 1 ELSE b

\* np.argmax of a vector: the first index of its maximum
argmax(a) == ArgMaxUpTo(a, Size(a))

\* One iteration of the loop of profit (lines 79-80): the value added to total.
prophet(te, tr, col) ==
    LET best_buy == argmax(Column(te, col))
        bought == Index(tr, best_buy)[col]
        before == Index(tr, best_buy - 1)[col]
    IN  FracDiv(Frac(100 * (bought - before), 1), Frac(before, 1))

ProfitShapes ==
    {s \in (1..MaxCompanies) \X (0..MaxTimesteps) : s[1] * s[2] <= MaxProfitCells}

ProfitIdle ==
    /\ test = <<>> /\ truth = <<>> /\ i = 0 /\ total = <<0, 1>> /\ ppc = "idle"

\* State after line 77.
ProfitInit ==
    /\ \E s \in ProfitShapes :
         /\ test \in Matrices(s[1], s[2], Scores)
         /\ truth \in Matrices(s[1], s[2], Prices)
    /\ i = 0
    /\ total = <<0, 1>>
    /\ ppc = "loop"

ProfitStep ==
    /\ ppc = "loop"
    /\ i < Size(test[0])
    /\ total' = FracAdd(total, prophet(test, truth, i))
    /\ i' = i + 1
    /\ UNCHANGED <<test, truth, ppc>>
    /\ UNCHANGED <<corrVars, retVars, dsVars, storeVars>>

ProfitReturn ==
    /\ ppc = "loop"
    /\ i >= Size(test[0])
    /\ ppc' = "done"
    /\ UNCHANGED <<test, truth, i, total>>
    /\ UNCHANGED <<corrVars, retVars, dsVars, storeVars>>

----------------------------------------------------------------------------
\* utils.py: save_corr_timestep, load_corr_timestep

MaxSaved == 2
MaxPayload == 1

Markets == {"NASDAQ", "NYSE"}

\* A tensor: what it holds, and its element type.
Tensors == [payload : 0..MaxPayload, dtype : {"float32", "float64"}]

RECURSIVE str(_)
\* str(t) of a non-negative integer: its decimal digits
str(k) == IF k < 10 THEN <<k>> ELSE Append(str(k \div 10), k % 10)

\* market_name + '_correlation_init_' + str(t) + '.npy'
FileName(market_name, k) == <<market_name, "_correlation_init_", str(k), ".npy">>

\* os.path.join(save_path, market_name, file name)
Path(market_name, name) == <<market_name, name>>

\* The names os.listdir finds in the directory of a market.
Names(market_name) == {p[2] : p \in {q \in DOMAIN files : q[1] = market_name}}

\* os.listdir returns the names in arbitrary order: every ordering of them.
listdir(market_name) ==
    LET names == Names(market_name)
        k == Cardinality(names)
    IN  {l \in [0..(k - 1) -> names] : \A a, b \in 0..(k - 1) : a # b => l[a] # l[b]}

\* torch.from_numpy(...).float()
float(x) == [x EXCEPT !.dtype = "float32"]

NoLoad == [market_name |-> "", t |-> -1, tensor |-> [payload |-> 0, dtype |-> ""]]

StoreInit ==
    /\ dirs = {}
    /\ files = <<>>
    /\ loaded = NoLoad

save_corr_timestep ==
    \E data \in Tensors, market_name \in Markets, k \in 0..MaxSaved :
        LET save_file_path == Path(market_name, FileName(market_name, k))
        IN  /\ dirs' = dirs \cup {market_name}
            /\ files' = [p \in DOMAIN files \cup {save_file_path} |->
                           IF p = save_file_path THEN data ELSE files[p]]
            /\ UNCHANGED loaded
            /\ UNCHANGED <<corrVars, retVars, dsVars, profitVars>>

load_corr_timestep ==
    \E market_name \in Markets, k \in 0..MaxSaved :
        /\ market_name \in dirs
        /\ k < Cardinality(Names(market_name))
        /\ \E listing \in listdir(market_name) :
              LET load_path == Path(market_name, listing[k])
              IN  loaded' = [market_name |-> market_name, t |-> k,
                             tensor |-> float(files[load_path])]
        /\ UNCHANGED <<dirs, files>>
        /\ UNCHANGED <<corrVars, retVars, dsVars, profitVars>>

----------------------------------------------------------------------------
\* Specifications, one per program.

Init == CorrInit /\ RetIdle /\ DsIdle /\ ProfitIdle /\ StoreInit

Next == CorrBody \/ CorrSave

Spec == Init /\ [][Next]_vars

InitReturns == CorrIdle /\ RetInit(0..MaxSkip) /\ DsIdle /\ ProfitIdle /\ StoreInit

InitReturnsAnySkip == CorrIdle /\ RetInit((-MaxSkip)..MaxSkip) /\ DsIdle /\ ProfitIdle /\ StoreInit

NextReturns == CallBestReturn \/ CallAvgReturn

SpecReturns == InitReturns /\ [][NextReturns]_vars

SpecReturnsAnySkip == InitReturnsAnySkip /\ [][NextReturns]_vars

InitDataset == CorrIdle /\ RetIdle /\ DsInit /\ ProfitIdle /\ StoreInit

NextDataset == GetDataset

SpecDataset == InitDataset /\ [][NextDataset]_vars

InitProfit == CorrIdle /\ RetIdle /\ DsIdle /\ ProfitInit /\ StoreInit

NextProfit == ProfitStep \/ ProfitReturn

SpecProfit == InitProfit /\ [][NextProfit]_vars

InitStore == CorrIdle /\ RetIdle /\ DsIdle /\ ProfitIdle /\ StoreInit

NextStore == save_corr_timestep \/ load_corr_timestep

SpecStore == InitStore /\ [][NextStore]_vars

----------------------------------------------------------------------------
\* Properties of init_temporal_correlations.py (Spec).

\* 1.0
One == <<1, 1, 1, 0>>

\* Row c of the ReturnSeries restricted to timesteps tt, ..., tt + corr_size - 1.
Window(c, tt) == [k \in 0..(corr_size - 1) |-> gt_data[c][tt + k]]

SumOver(x, f(_)) == SumUpTo([k \in DOMAIN x |-> f(k)], Size(x))

\* The Pearson correlation coefficient by its textbook formula,
\* (n Sxy - Sx Sy) / sqrt((n Sxx - Sx^2)(n Syy - Sy^2)).
PearsonCoefficient(x, y) ==
    LET len == Size(x)
        sx == Sum(x)
        sy == Sum(y)
        cov == len * SumOver(x, LAMBDA k : x[k] * y[k]) - sx * sy
        vx == len * SumOver(x, LAMBDA k : x[k] * x[k]) - sx * sx
        vy == len * SumOver(y, LAMBDA k : y[k] * y[k]) - sy * sy
    IN  Root(Sign(cov), cov * cov, vx * vy)

\* C1: when the loop has finished, every cell [t][i][j] whose two windows are
\* both non-constant holds the Pearson coefficient of the windows of rows i
\* and j starting at t (1.0 for identical windows).
C1_PearsonEverywhere ==
    pc = "done" =>
        \A cell \in Cells :
            LET x == Window(cell[2], cell[1])
                y == Window(cell[3], cell[1])
            IN  (~IsConstant(x) /\ ~IsConstant(y)) =>
                    /\ corr[cell] = PearsonCoefficient(x, y)
                    /\ (x = y => corr[cell] = One)

\* C2: when the loop has finished, every cell [t][i][j] with a constant window
\* of i or of j holds exactly the sentinel, and no cell is NaN.
C2_SentinelEverywhere ==
    pc = "done" =>
        /\ \A cell \in Cells :
              (IsConstant(Window(cell[2], cell[1])) \/ IsConstant(Window(cell[3], cell[1])))
                  => corr[cell] = Sentinel
        /\ \A cell \in Cells : corr[cell] # NaN

\* C3: the loop writes exactly the cells whose column j lies in
\* [1, num_companies - 1); the columns 0 and num_companies - 1 are never
\* written and hold the zero fill, at every moment and at the end.
C3_WrittenCells ==
    /\ \A cell \in written : 1 <= cell[3] /\ cell[3] < num_companies - 1
    /\ \A cell \in Cells :
          (cell[3] = 0 \/ cell[3] = num_companies - 1) => corr[cell] = Zero
    /\ pc = "done" =>
          written = {cell \in Cells : 1 <= cell[3] /\ cell[3] < num_companies - 1}

\* A finished run in which cells were written and a skipped cell would have
\* held a non-zero coefficient.
C3_Witness ==
    /\ pc = "done"
    /\ written # {}
    /\ \E cell \in Cells :
          /\ cell[3] = num_companies - 1
          /\ ~IsConstant(Window(cell[2], cell[1]))
          /\ Window(cell[2], cell[1]) = Window(cell[3], cell[1])
          /\ cell[2] # cell[3]
          /\ corr[cell] = Zero

\* C4 as stated: when the loop has finished every diagonal cell [t][i][i]
\* holds the zero fill.
C4_DiagonalZero ==
    pc = "done" => \A cell \in Cells : cell[2] = cell[3] => corr[cell] = Zero

\* C4 amended: a diagonal cell [t][i][i] holds the zero fill only for i = 0
\* and i = num_companies - 1; for every other i it is computed like any cell:
\* the self-correlation 1.0 of a non-constant window, the sentinel of a
\* constant one.
C4_Diagonal ==
    pc = "done" =>
        \A cell \in Cells :
            cell[2] = cell[3] =>
                corr[cell] =
                    IF cell[2] = 0 \/ cell[2] = num_companies - 1 THEN Zero
                    ELSE IF IsConstant(Window(cell[2], cell[1])) THEN Sentinel
                    ELSE One

\* A finished run with a diagonal cell of each of the three kinds.
C4_Witness ==
    /\ pc = "done"
    /\ \E a, b, c \in Cells :
          /\ a[2] = a[3] /\ corr[a] = One
          /\ b[2] = b[3] /\ corr[b] = Sentinel
          /\ c[2] = c[3] /\ corr[c] = Zero

----------------------------------------------------------------------------
\* Properties of best_return and avg_return (SpecReturns, SpecReturnsAnySkip).

\* The largest return of any entity at timestep tt.
MaxReturnAt(tt) ==
    CHOOSE m \in {pct_returns[e][tt] : e \in DOMAIN pct_returns} :
        \A e \in DOMAIN pct_returns : pct_returns[e][tt] <= m

\* The sum of f[x] over the x of S.
RECURSIVE SumOfSet(_, _)
SumOfSet(S, f) ==
    IF S = {} THEN 0
    ELSE LET x == CHOOSE y \in S : TRUE IN f[x] + SumOfSet(S \ {x}, f)

CountedSteps == {tt \in 0..(RetCols - 1) : skip_n_steps <= tt}

ExampleReturns == [e \in 0..1 |-> IF e = 0 THEN [tt \in 0..1 |-> tt + 1]
                                  ELSE [tt \in 0..1 |-> 3 - 2 * tt]]

\* C5: best_return is the sum over exactly the timesteps tt with
\* skip_n_steps <= tt < T of daily_investment times the largest return of any
\* entity at tt; it is 0 when skip_n_steps >= T, and 500 on [[1,2],[3,1]]
\* with an investment of 100 and no skipped step.
C5_BestReturn ==
    ret.best_done =>
        /\ ret.best = <<SumOfSet(CountedSteps,
                                  [tt \in CountedSteps |-> daily_investment * MaxReturnAt(tt)]), 1>>
        /\ skip_n_steps >= RetCols => ret.best = <<0, 1>>
        /\ (pct_returns = ExampleReturns /\ daily_investment = 100 /\ skip_n_steps = 0)
              => ret.best = <<500, 1>>

\* best_return of [[1,2],[3,1]] with the first step skipped: only the second
\* timestep counts.
C5_Witness ==
    /\ ret.best_done
    /\ pct_returns = ExampleReturns
    /\ daily_investment = 100
    /\ skip_n_steps = 1
    /\ ret.best = <<200, 1>>

----------------------------------------------------------------------------
\* Properties of get_dataset (SpecDataset).

SeriesLength == Size(price_data[0])

\* m is exactly the columns lo, ..., hi - 1 of every row of price_data.
IsColumns(m, lo, hi) ==
    /\ DOMAIN m = DOMAIN price_data
    /\ \A r \in DOMAIN m :
          /\ DOMAIN m[r] = 0..(hi - lo - 1)
          /\ \A k \in DOMAIN m[r] : lo + k \in DOMAIN price_data[r] /\ m[r][k] = price_data[r][lo + k]

IsSplitOf(res, k) ==
    LET start == k * test_size
    IN  /\ res.split
        /\ IsColumns(res.train, start, start + train_size)
        /\ IsColumns(res.test, start + train_size, start + train_size + test_size)
        /\ \A r \in DOMAIN price_data :
              Size(res.train[r]) = train_size /\ Size(res.test[r]) = test_size

\* C7 as stated: a split exactly when start + train_size + test_size <= T,
\* otherwise the integer T - start, which lies between 0 and T.
C7_SplitOrRemaining ==
    \A k \in DOMAIN folds :
        LET start == k * test_size
        IN  IF start + train_size + test_size <= SeriesLength
            THEN IsSplitOf(folds[k], k)
            ELSE /\ ~folds[k].split
                 /\ folds[k].value = SeriesLength - start
                 /\ 0 <= folds[k].value /\ folds[k].value <= SeriesLength

\* C7 amended: a split exactly when start + train_size + test_size <= T,
\* otherwise the integer T - start, which is at most T and less than
\* train_size + test_size, and is negative when start > T.
C7_SplitOrDifference ==
    \A k \in DOMAIN folds :
        LET start == k * test_size
        IN  IF start + train_size + test_size <= SeriesLength
            THEN IsSplitOf(folds[k], k)
            ELSE /\ ~folds[k].split
                 /\ folds[k].value = SeriesLength - start
                 /\ folds[k].value <= SeriesLength
                 /\ folds[k].value < train_size + test_size
                 /\ start > SeriesLength => folds[k].value < 0

\* A later fold that splits with non-empty train and test, and a fold past
\* the end of the series.
C7_Witness ==
    /\ \E k \in DOMAIN folds :
          k >= 1 /\ folds[k].split /\ train_size >= 1 /\ test_size >= 2
    /\ \E k \in DOMAIN folds : ~folds[k].split /\ folds[k].value < 0

\* The columns of price_data a slice was cut from.
ColumnsOf(m) == {c \in DOMAIN price_data[0] : \E k \in DOMAIN m[0] : m[0][k] = price_data[0][c]}

\* C10: over successive folds with test_size >= 1, (1) the test windows of the
\* folds that split are pairwise disjoint and each starts at the column where
\* the previous one ends; (2) after a fold that returns an integer every later
\* fold returns an integer; (3) the first integer, when returned by a fold
\* n >= 1, is at least train_size and less than train_size + test_size.
C10_Folds ==
    test_size >= 1 =>
        /\ \A j, k \in DOMAIN folds :
              (j # k /\ folds[j].split /\ folds[k].split)
                  => ColumnsOf(folds[j].test) \cap ColumnsOf(folds[k].test) = {}
        /\ \A k \in DOMAIN folds :
              (k + 1 \in DOMAIN folds /\ folds[k].split /\ folds[k + 1].split)
                  => \E c \in ColumnsOf(folds[k + 1].test) :
                        /\ \A d \in ColumnsOf(folds[k + 1].test) : c <= d
                        /\ c - 1 \in ColumnsOf(folds[k].test)
                        /\ \A d \in ColumnsOf(folds[k].test) : d <= c - 1
        /\ \A j, k \in DOMAIN folds : (j < k /\ ~folds[j].split) => ~folds[k].split
        /\ \A k \in DOMAIN folds :
              (k >= 1 /\ ~folds[k].split /\ folds[k - 1].split)
                  => (train_size <= folds[k].value /\ folds[k].value < train_size + test_size)

\* Three folds that split and two that follow and return integers.
C10_Witness ==
    /\ test_size >= 2
    /\ Size(folds) >= 5
    /\ folds[2].split
    /\ ~folds[3].split /\ ~folds[4].split

----------------------------------------------------------------------------
\* Properties of profit (SpecProfit).

\* The percent change of entity b between the previous column and column c,
\* the previous column of column 0 being the last one.
PercentChange(b, c) ==
    LET p == IF c = 0 THEN Size(truth[b]) - 1 ELSE c - 1
    IN  FracDiv(Frac(100 * (truth[b][c] - truth[b][p]), 1), Frac(truth[b][p], 1))

\* The first entity with the largest score in column c of test.
BestEntity(c) ==
    CHOOSE b \in DOMAIN test :
        /\ \A e \in DOMAIN test : test[e][c] <= test[b][c]
        /\ \A e \in DOMAIN test : test[e][c] = test[b][c] => b <= e

\* The sum of the fractions f[x] over the x of S.
RECURSIVE FracSumOfSet(_, _)
FracSumOfSet(S, f) ==
    IF S = {} THEN <<0, 1>>
    ELSE LET x == CHOOSE y \in S : TRUE IN FracAdd(f[x], FracSumOfSet(S \ {x}, f))

\* C8: profit returns the sum over the columns c of test of the percent change
\* of truth, for the entity with the largest score in column c, between the
\* previous timestep and c.
C8_ProfitOverTime ==
    ppc = "done" =>
        total = FracSumOfSet(DOMAIN test[0],
                             [c \in DOMAIN test[0] |-> PercentChange(BestEntity(c), c)])

----------------------------------------------------------------------------
\* Properties of save_corr_timestep and load_corr_timestep (SpecStore).

\* The directory of market m holds exactly the files of timesteps 0..k-1.
SavedUpTo(m, k) == Names(m) = {FileName(m, j) : j \in 0..(k - 1)}

\* C9: once timesteps 0..k-1 have been saved into the directory of a market,
\* load_corr_timestep(t) returns, for every t in 0..k-1, the matrix saved
\* with that t, in whatever order the directory is listed.
C9_RoundTrip ==
    [][\A m \in Markets, k \in 1..(MaxSaved + 1) :
          (SavedUpTo(m, k) /\ loaded' # loaded /\ loaded'.market_name = m)
              => loaded'.tensor.payload = files[Path(m, FileName(m, loaded'.t))].payload]_vars

====
